---- MODULE Spec2Model ----
(***************************************************************************)
(* Model of the MinIO -> Weaviate enrichment pipeline of main.py and      *)
(* async-main.py: the pydantic models, the four stage functions, the      *)
(* synchronous handler handle_minio_event, the asynchronous handler       *)
(* handle_minio_event_async with its placeholder managers, and the        *)
(* example coroutine main() of async-main.py.                             *)
(*                                                                         *)
(* The MinIO client, the Weaviate client and the aiohttp session are      *)
(* external: each call to them either returns or raises, and an HTTP      *)
(* response carries either status 200 or another status.  These outcomes  *)
(* are the inputs of the actions.                                          *)
(***************************************************************************)
EXTENDS Integers, Sequences, FiniteSets

VARIABLES minio, put_calls, weaviate, events

vars == <<minio, put_calls, weaviate, events>>

\* Bound: number of handler invocations / tasks in one behaviour.
MaxEvents == 2

\* ------------------------------------------------------------------------
\* Values
\* ------------------------------------------------------------------------

\* Python None.
None == "None"

\* Python {} ; a dict is a function from its keys to its values.
EmptyDict == [k \in {} |-> None]

\* Truthiness of a dict, as tested by `if additional_props:` (None and {}
\* are both falsy; an absent argument is passed here as EmptyDict).
Truthy(d) == DOMAIN d # {}

\* dict.update: the entries of a, over those of d.
Update(d, a) ==
    [k \in (DOMAIN d) \cup (DOMAIN a) |-> IF k \in DOMAIN a THEN a[k] ELSE d[k]]

\* Object keys the handlers are called with; main() always uses 'object-key'.
Keys == {"img1", "object-key"}

SourceBucket == "source-bucket"

TargetBucket == "target-bucket"

Buckets == {SourceBucket, TargetBucket}

\* Metadata carried by the objects initially in the source bucket.
ExistingMetadata == [a |-> "1"]

\* Metadata dicts passed to a direct call of index_object_sync.
MetadataInputs == {[tag |-> "cat"], [key |-> "other"]}

\* ------------------------------------------------------------------------
\* Pydantic models
\* ------------------------------------------------------------------------

\* MinioObject(key=..., metadata=...): size and etag keep their default and
\* are not in the set of explicitly set fields.
MinioObject(key, metadata) ==
    [key |-> key, size |-> None, metadata |-> metadata, etag |-> None,
     fields_set |-> {"key", "metadata"}]

\* minio_model.dict(exclude_unset=True)
DictExcludeUnset(minio_model) ==
    [f \in minio_model.fields_set |-> minio_model[f]]

\* WeaviateClass.from_minio_model
from_minio_model(class_name, minio_model, additional_props) ==
    LET model_dict == DictExcludeUnset(minio_model)
    IN  [class_name |-> class_name,
         properties |-> IF Truthy(additional_props)
                        THEN Update(model_dict, additional_props)
                        ELSE model_dict,
         id |-> None,
         context |-> EmptyDict]

\* The data object both index functions build and send.
IndexDataObject(class_name, object_key, metadata) ==
    from_minio_model(class_name, MinioObject(object_key, metadata), EmptyDict)

\* ------------------------------------------------------------------------
\* Stage functions of main.py (module level) and async-main.py
\* (MinioWeaviateManager).  A store state s is a record
\* [minio, put_calls, weaviate]; a stage result is
\*   [exc  : TRUE iff an exception leaves the function,
\*    ret  : the value returned,
\*    ok   : whether the caller's `if` takes the returned value as true,
\*    err  : "none", or what made the stage fail,
\*    md   : the metadata the stage was called with,
\*    rec  : the position in the index of the object the call created, or 0,
\*    s    : the store state after the call,
\*    out  : what the function printed].
\* ------------------------------------------------------------------------

\* Outcome of one call to an external client: it returns or it raises.
CallOutcomes == {"ok", "error"}

\* copy_object can also be refused because a precondition (etag) no longer
\* holds; the client raises for it as for any other error.
CopyOutcomes == {"ok", "conflict", "error"}

\* A try block whose except clause is missing: the exception leaves the function.
TryNoExcept(raised, value, on_error) ==
    [exc |-> raised, ret |-> IF raised THEN on_error ELSE value]

\* try: ... return value / except Exception as e: print(...); return on_error
TryExcept(raised, value, on_error) ==
    [exc |-> FALSE, ret |-> IF raised THEN on_error ELSE value]

\* minio_client.get_object raises when the object is absent or on a transport error.
GetRaises(s, bucket, object_key, outcome) ==
    outcome # "ok" \/ s.minio[bucket][object_key] = {}

\* replicate_object / MinioWeaviateManager.replicate_object_sync
replicate_object(s, source_bucket, target_bucket, object_key, get, put) ==
    LET get_raised == GetRaises(s, source_bucket, object_key, get)
        put_called == ~get_raised
        put_raised == put_called /\ put # "ok"
        raised     == get_raised \/ put_raised
        source_object == CHOOSE x \in s.minio[source_bucket][object_key] : TRUE
        \* put_object(bucket, key, data, length): content only, no metadata
        written == [content |-> source_object.content, metadata |-> EmptyDict]
        r == TryExcept(raised, TRUE, FALSE)
    IN  [exc |-> r.exc, ret |-> r.ret, ok |-> r.ret,
         err |-> IF raised THEN "error" ELSE "none",
         md  |-> EmptyDict, rec |-> 0,
         s   |-> [s EXCEPT
                    !.put_calls[object_key] = @ + (IF put_called THEN 1 ELSE 0),
                    !.minio[target_bucket][object_key] =
                        IF raised THEN @ ELSE {written}],
         out |-> IF raised THEN <<"Error replicating object">> ELSE <<>>]

\* fetch_object_content_and_metadata: {} stands for None, {d} for the dict d.
fetch_object_content_and_metadata(s, bucket, object_key, fetch) ==
    LET raised == GetRaises(s, bucket, object_key, fetch)
        object == CHOOSE x \in s.minio[bucket][object_key] : TRUE
        r == TryExcept(raised,
                       {[content |-> object.content, metadata |-> object.metadata]},
                       {})
    IN  [exc |-> r.exc, ret |-> r.ret, ok |-> r.ret # {},
         err |-> IF raised THEN "error" ELSE "none",
         md  |-> EmptyDict, rec |-> 0,
         s   |-> s,
         out |-> IF raised THEN <<"Error fetching object content and metadata">>
                 ELSE <<>>]

\* process_object_content_for_metadata_enrichment: the content is not read.
process_object_content_for_metadata_enrichment(content) ==
    [example_key |-> "example_value"]

\* update_object_metadata_in_minio with an except clause that reports success.
update_object_metadata_in_minio_swallow(s, bucket, object_key, metadata, copy) ==
    LET raised == copy # "ok" \/ s.minio[bucket][object_key] = {}
    IN  [exc |-> FALSE, ret |-> TRUE, ok |-> TRUE,
         err |-> IF ~raised THEN "none"
                 ELSE IF copy = "conflict" THEN "conflict" ELSE "error",
         md  |-> metadata, rec |-> 0,
         s   |-> [s EXCEPT !.minio[bucket][object_key] =
                    IF raised THEN @
                    ELSE {[content |-> (CHOOSE x \in @ : TRUE).content,
                           metadata |-> metadata]}],
         out |-> IF raised THEN <<"Error updating object metadata">> ELSE <<>>]

\* update_object_metadata_in_minio: copy_object onto itself with new metadata.
update_object_metadata_in_minio(s, bucket, object_key, metadata, copy) ==
    LET raised == copy # "ok" \/ s.minio[bucket][object_key] = {}
        object == CHOOSE x \in s.minio[bucket][object_key] : TRUE
        r == TryExcept(raised, TRUE, FALSE)
    IN  [exc |-> r.exc, ret |-> r.ret, ok |-> r.ret,
         err |-> IF ~raised THEN "none"
                 ELSE IF copy = "conflict" THEN "conflict" ELSE "error",
         md  |-> metadata, rec |-> 0,
         s   |-> [s EXCEPT !.minio[bucket][object_key] =
                    IF raised THEN @
                    ELSE {[content |-> object.content, metadata |-> metadata]}],
         out |-> IF raised THEN <<"Error updating object metadata">> ELSE <<>>]

\* index_object_and_metadata_in_weaviate / MinioWeaviateManager.index_object_sync:
\* data_object.create(...) adds a new object under a fresh id.
index_object_and_metadata_in_weaviate(s, class_name, object_key, metadata, create) ==
    LET raised == create # "ok"
        data_object == IndexDataObject(class_name, object_key, metadata)
        r == TryExcept(raised, TRUE, FALSE)
    IN  [exc |-> r.exc, ret |-> r.ret, ok |-> r.ret,
         err |-> IF raised THEN "error" ELSE "none",
         md  |-> metadata, rec |-> IF raised THEN 0 ELSE Len(s.weaviate) + 1,
         s   |-> [s EXCEPT !.weaviate =
                    IF raised THEN @
                    ELSE Append(@, [class_name |-> class_name, object |-> data_object])],
         out |-> IF raised THEN <<"Error indexing object and metadata in Weaviate">>
                 ELSE <<>>]

\* ------------------------------------------------------------------------
\* Events: one record per handler invocation or task
\* ------------------------------------------------------------------------

\* One entry of an event's trace: a stage function that was called.
Call(stage, r) ==
    [stage |-> stage, ok |-> (~r.exc /\ r.ok), err |-> r.err, md |-> r.md,
     rec |-> r.rec]

\* The handler has run to its end (or an exception left it): its record.
Finish(kind, object_key, trace, out, s, crashed) ==
    [ev |-> [kind |-> kind, key |-> object_key,
             pc |-> IF crashed THEN "crashed" ELSE "done",
             trace |-> trace,
             ret |-> IF crashed THEN "raised" ELSE None,
             out |-> out],
     s |-> s]

\* handle_minio_event, given the outcome o of each client call it may make.
handle_minio_event(s, class_name, source_bucket, target_bucket, object_key, o) ==
    LET r1 == replicate_object(s, source_bucket, target_bucket, object_key, o.get, o.put)
        t1 == <<Call("replicate", r1)>>
        r2 == fetch_object_content_and_metadata(r1.s, target_bucket, object_key, o.fetch)
        t2 == Append(t1, Call("fetch", r2))
        object_data == CHOOSE d \in r2.ret : TRUE
        enriched_metadata ==
            process_object_content_for_metadata_enrichment(object_data.content)
        r3 == update_object_metadata_in_minio(r2.s, target_bucket, object_key,
                                               enriched_metadata, o.copy)
        t3 == Append(t2, Call("commit", r3))
        r4 == index_object_and_metadata_in_weaviate(r3.s, class_name, object_key,
                                                     enriched_metadata, o.create)
        t4 == Append(t3, Call("index", r4))
    IN  IF r1.exc \/ ~r1.ok
        THEN Finish("sync", object_key, t1, r1.out, r1.s, r1.exc)
        ELSE IF r2.exc \/ ~r2.ok
        THEN Finish("sync", object_key, t2, r1.out \o r2.out, r2.s, r2.exc)
        ELSE IF r3.exc \/ ~r3.ok
        THEN Finish("sync", object_key, t3, r1.out \o r2.out \o r3.out, r3.s, r3.exc)
        ELSE Finish("sync", object_key, t4,
                    r1.out \o r2.out \o r3.out \o r4.out, r4.s, r4.exc)

\* MinioManager.replicate_object (main.py): placeholder, no client call.
MinioManager_replicate_object(s, source_bucket, target_bucket, object_key) ==
    [exc |-> FALSE, ret |-> TRUE, ok |-> TRUE, err |-> "none", md |-> EmptyDict,
     rec |-> 0, s |-> s, out |-> <<>>]

\* MinioManager.fetch_object_content_and_metadata (main.py): placeholder.
MinioManager_fetch_object_content_and_metadata(s, bucket, object_key) ==
    LET d == [content |-> "example_content",
              metadata |-> [example_key |-> "example_value"]]
    IN  [exc |-> FALSE, ret |-> {d}, ok |-> TRUE, err |-> "none", md |-> EmptyDict,
         rec |-> 0, s |-> s, out |-> <<>>]

\* WeaviateManager.index_object (main.py): placeholder, no client call.
WeaviateManager_index_object(s, class_name, object_key, metadata) ==
    [exc |-> FALSE, ret |-> TRUE, ok |-> TRUE, err |-> "none", md |-> metadata,
     rec |-> 0, s |-> s, out |-> <<>>]

\* handle_minio_event_async with the managers main.py constructs.  None of
\* the awaited coroutines suspends, so the handler runs in one piece.
handle_minio_event_async(s, class_name, source_bucket, target_bucket, object_key) ==
    LET r1 == MinioManager_replicate_object(s, source_bucket, target_bucket, object_key)
        t1 == <<Call("replicate", r1)>>
        r2 == MinioManager_fetch_object_content_and_metadata(r1.s, target_bucket,
                                                              object_key)
        t2 == Append(t1, Call("fetch", r2))
        enriched_metadata == [processed_key |-> "processed_value"]
        r3 == WeaviateManager_index_object(r2.s, class_name, object_key,
                                           enriched_metadata)
        t3 == Append(t2, Call("index", r3))
    IN  IF ~r1.ok
        THEN Finish("async", object_key, t1, <<"Failed to replicate object.">>,
                    r1.s, FALSE)
        ELSE IF ~r2.ok
        THEN Finish("async", object_key, t2,
                    <<"Failed to fetch object content and metadata.">>, r2.s, FALSE)
        ELSE Finish("async", object_key, t3,
                    IF r3.ok THEN <<"Object indexed successfully.">>
                    ELSE <<"Failed to index object.">>, r3.s, FALSE)

\* ------------------------------------------------------------------------
\* AsyncMinioWeaviateManager and main() of async-main.py.  Each `async with
\* self.session...` and `await response.read()` is a suspension point: the
\* task waits there until the response arrives, and other tasks run.
\* ------------------------------------------------------------------------

\* An HTTP exchange ends with status 200, with another status, or raises.
HttpOutcomes == {"200", "404", "error"}

\* The arguments main() passes.
MainKey == "object-key"

MainClass == "ExampleClass"

MainMetadata == [metadata_key |-> "metadata_value"]

\* The try/except of replicate_object_async with its except clause missing.
replicate_object_async_try_noexcept(raised, value) ==
    TryNoExcept(raised, value, FALSE)

\* The try/except around the body of replicate_object_async.
replicate_object_async_try(raised, value) == TryExcept(raised, value, FALSE)

\* The try/except around the body of index_object_async.
index_object_async_try(raised, value) == TryExcept(raised, value, FALSE)

\* The store state the stage functions work on.
Store == [minio |-> minio, put_calls |-> put_calls, weaviate |-> weaviate]

\* The variables take the store state s.
SetStore(s) ==
    /\ minio' = s.minio
    /\ put_calls' = s.put_calls
    /\ weaviate' = s.weaviate

\* A new handler invocation or task may begin.
CanBegin == Len(events) < MaxEvents

\* Task e is suspended at position pc.
At(e, pc) == e \in DOMAIN events /\ events[e].pc = pc

\* An exception leaves main(): the task ends with it.
Crashed(e) == [events[e] EXCEPT !.pc = "crashed", !.ret = "raised"]

\* replicate_object_async has returned value v to main(), which prints the
\* result and goes on to index_object_async, whatever v is: the POST is sent.
AfterReplicate(e, v, err, printed) ==
    [events[e] EXCEPT
        !.pc = "post",
        !.trace = Append(@, [stage |-> "replicate", ok |-> v, err |-> err,
                             md |-> EmptyDict, rec |-> 0]),
        !.out = @ \o printed \o
                (IF v THEN <<"Object replicated successfully.">>
                 ELSE <<"Failed to replicate object.">>)]

\* asyncio.run(main()): the task starts and sends the GET for the source object.
MainStart ==
    /\ CanBegin
    /\ events' = Append(events, [kind |-> "main", key |-> MainKey, pc |-> "get",
                                 trace |-> <<>>, ret |-> "pending", out |-> <<>>])
    /\ UNCHANGED <<minio, put_calls, weaviate>>

\* The response to the GET arrives.
GetResponse(e, resp) ==
    /\ At(e, "get")
    /\ resp = "200" => minio[SourceBucket][events[e].key] # {}
    /\ LET r == replicate_object_async_try(resp = "error", resp = "200")
       IN  events' = [events EXCEPT ![e] =
               IF r.exc THEN Crashed(e)
               ELSE IF r.ret THEN [events[e] EXCEPT !.pc = "read"]
               ELSE IF resp = "error"
               THEN AfterReplicate(e, FALSE, "error",
                                   <<"Error replicating object asynchronously">>)
               ELSE AfterReplicate(e, FALSE, "status", <<>>)]
    /\ UNCHANGED <<minio, put_calls, weaviate>>

\* await response.read() ends; on success the PUT to the target bucket is sent.
ReadResponse(e, outcome) ==
    /\ At(e, "read")
    /\ LET r == replicate_object_async_try(outcome = "error", TRUE)
       IN  /\ events' = [events EXCEPT ![e] =
                  IF r.exc THEN Crashed(e)
                  ELSE IF r.ret THEN [events[e] EXCEPT !.pc = "put"]
                  ELSE AfterReplicate(e, FALSE, "error",
                                      <<"Error replicating object asynchronously">>)]
           /\ put_calls' = [put_calls EXCEPT ![events[e].key] =
                               @ + (IF outcome = "ok" THEN 1 ELSE 0)]
    /\ UNCHANGED <<minio, weaviate>>

\* The response to the PUT arrives: replicate_object_async returns.
PutResponse(e, resp) ==
    /\ At(e, "put")
    /\ LET r == replicate_object_async_try(resp = "error", resp = "200")
           object_data == CHOOSE x \in minio[SourceBucket][events[e].key] : TRUE
       IN  /\ events' = [events EXCEPT ![e] =
                  IF r.exc THEN Crashed(e)
                  ELSE IF r.ret THEN AfterReplicate(e, TRUE, "none", <<>>)
                  ELSE IF resp = "error"
                  THEN AfterReplicate(e, FALSE, "error",
                                      <<"Error replicating object asynchronously">>)
                  ELSE AfterReplicate(e, FALSE, "status", <<>>)]
           /\ minio' = [minio EXCEPT ![TargetBucket][events[e].key] =
                           IF resp = "200"
                           THEN {[content |-> object_data.content,
                                  metadata |-> EmptyDict]}
                           ELSE @]
    /\ UNCHANGED <<put_calls, weaviate>>

\* The response to the POST arrives: index_object_async returns and main() ends.
PostResponse(e, resp) ==
    /\ At(e, "post")
    /\ LET r == index_object_async_try(resp = "error", resp = "200")
           object_data == IndexDataObject(MainClass, events[e].key, MainMetadata)
       IN  /\ events' = [events EXCEPT ![e] =
                  IF r.exc THEN Crashed(e)
                  ELSE [events[e] EXCEPT
                          !.pc = "done",
                          !.ret = None,
                          !.trace = Append(@,
                              [stage |-> "index", ok |-> r.ret,
                               err |-> IF resp = "200" THEN "none"
                                       ELSE IF resp = "error" THEN "error"
                                       ELSE "status",
                               md |-> MainMetadata,
                               rec |-> IF resp = "200" THEN Len(weaviate) + 1
                                       ELSE 0]),
                          !.out = @ \o
                              (IF resp = "error"
                               THEN <<"Error indexing object in Weaviate asynchronously">>
                               ELSE <<>>) \o
                              (IF r.ret THEN <<"Object indexed successfully.">>
                               ELSE <<"Failed to index object.">>)]]
           /\ weaviate' = IF resp = "200"
                          THEN Append(weaviate,
                                      [class_name |-> object_data.class_name,
                                       object |-> object_data])
                          ELSE weaviate
    /\ UNCHANGED <<minio, put_calls>>

\* ------------------------------------------------------------------------
\* The handlers and direct calls as actions
\* ------------------------------------------------------------------------

\* The class name the handlers are called with.
ClassName == "Images"

\* The outcomes of the client calls one run of handle_minio_event may make.
Outcomes ==
    [get : CallOutcomes, put : CallOutcomes, fetch : CallOutcomes,
     copy : CopyOutcomes, create : CallOutcomes]

\* handle_minio_event(class_name, source_bucket, target_bucket, object_key)
HandleMinioEvent(object_key, o) ==
    /\ CanBegin
    /\ LET h == handle_minio_event(Store, ClassName, SourceBucket, TargetBucket,
                                   object_key, o)
       IN  /\ events' = Append(events, h.ev)
           /\ SetStore(h.s)

\* await handle_minio_event_async(minio_manager, weaviate_manager, ...)
HandleMinioEventAsync(object_key) ==
    /\ CanBegin
    /\ LET h == handle_minio_event_async(Store, ClassName, SourceBucket,
                                         TargetBucket, object_key)
       IN  /\ events' = Append(events, h.ev)
           /\ SetStore(h.s)

\* A direct call manager.index_object_sync(class_name, object_key, metadata).
IndexObjectSync(object_key, metadata, create) ==
    /\ CanBegin
    /\ LET r == index_object_and_metadata_in_weaviate(Store, ClassName, object_key,
                                                      metadata, create)
       IN  /\ events' = Append(events,
                  [kind |-> "index_sync", key |-> object_key,
                   pc |-> IF r.exc THEN "crashed" ELSE "done",
                   trace |-> <<Call("index", r)>>,
                   ret |-> IF r.exc THEN "raised"
                           ELSE IF r.ret THEN "True" ELSE "False",
                   out |-> r.out])
           /\ SetStore(r.s)

\* ------------------------------------------------------------------------
\* Specification
\* ------------------------------------------------------------------------

\* Both buckets exist; the source bucket holds an object under every key,
\* the target bucket and the index are empty, nothing has been handled.
Init ==
    /\ minio = [b \in Buckets |->
                  [k \in Keys |->
                      IF b = SourceBucket
                      THEN {[content |-> k, metadata |-> ExistingMetadata]}
                      ELSE {}]]
    /\ put_calls = [k \in Keys |-> 0]
    /\ weaviate = <<>>
    /\ events = <<>>

Next ==
    \/ \E k \in Keys, o \in Outcomes : HandleMinioEvent(k, o)
    \/ \E k \in Keys : HandleMinioEventAsync(k)
    \/ \E k \in Keys, md \in MetadataInputs, c \in CallOutcomes :
          IndexObjectSync(k, md, c)
    \/ MainStart
    \/ \E e \in 1..MaxEvents, resp \in HttpOutcomes : GetResponse(e, resp)
    \/ \E e \in 1..MaxEvents, outcome \in CallOutcomes : ReadResponse(e, outcome)
    \/ \E e \in 1..MaxEvents, resp \in HttpOutcomes : PutResponse(e, resp)
    \/ \E e \in 1..MaxEvents, resp \in HttpOutcomes : PostResponse(e, resp)

Spec == Init /\ [][Next]_vars

\* The event loop runs every task that is ready, and every HTTP exchange
\* ends (with a response, an error or a timeout).
FairSpec ==
    /\ Spec
    /\ \A e \in 1..MaxEvents :
          /\ WF_vars(\E resp \in HttpOutcomes : GetResponse(e, resp))
          /\ WF_vars(\E outcome \in CallOutcomes : ReadResponse(e, outcome))
          /\ WF_vars(\E resp \in HttpOutcomes : PutResponse(e, resp))
          /\ WF_vars(\E resp \in HttpOutcomes : PostResponse(e, resp))

\* Type invariant.
TypeOK ==
    /\ Len(events) <= MaxEvents
    /\ \A e \in DOMAIN events :
          /\ events[e].kind \in {"sync", "async", "main", "index_sync"}
          /\ events[e].key \in Keys
          /\ events[e].pc \in {"get", "read", "put", "post", "done", "crashed"}
    /\ \A k \in Keys : put_calls[k] \in 0..MaxEvents
    /\ Len(weaviate) <= MaxEvents

\* ------------------------------------------------------------------------
\* Properties
\* ------------------------------------------------------------------------

\* The events run by a handler (a coordinator), not a direct stage call.
Handlers == {e \in DOMAIN events : events[e].kind \in {"sync", "async", "main"}}

\* The stage names of the trace of event e, in call order.
Stages(e) == [i \in 1..Len(events[e].trace) |-> events[e].trace[i].stage]

\* Event e has ended and some stage of it failed.
Failed(e) ==
    /\ events[e].pc = "done"
    /\ \E i \in 1..Len(events[e].trace) : ~events[e].trace[i].ok

\* Event e has ended, every stage it called succeeded, the last being indexing.
Completed(e) ==
    /\ events[e].pc = "done"
    /\ \A i \in 1..Len(events[e].trace) : events[e].trace[i].ok
    /\ Len(events[e].trace) > 0
    /\ events[e].trace[Len(events[e].trace)].stage = "index"

\* C1: a stage is called only after the previous stage of the same event
\* returned success; after a failed replication no indexing call is made
\* (a main() task waiting in "post" has its indexing call in flight).
C1_StageOnlyAfterSuccess ==
    \A e \in Handlers :
        LET t == events[e].trace
        IN  /\ \A i \in 2..Len(t) : t[i-1].ok
            /\ events[e].pc = "post" => t[Len(t)].ok

\* C2: every handler event that completes went through replicate, fetch /
\* enrich, commit and index, in this order and once each, and indexed the
\* metadata it committed.
C2_CompletedWentThroughCommit ==
    \A e \in Handlers :
        Completed(e) =>
            /\ Stages(e) = <<"replicate", "fetch", "commit", "index">>
            /\ events[e].trace[3].md = events[e].trace[4].md

\* C3: the source objects never change, so over any sequence of events at
\* most one write (put) is issued per object key.
C3_AtMostOneWrite == \A k \in Keys : put_calls[k] <= 1

\* C4: the index holds at most one record per class and object key.
C4_OneRecordPerKey ==
    \A i, j \in DOMAIN weaviate :
        (/\ weaviate[i].class_name = weaviate[j].class_name
         /\ weaviate[i].object.properties["key"] =
                weaviate[j].object.properties["key"])
            => i = j

\* C5: no two events for the same key have their indexing call in flight
\* at the same time.
C5_NoConcurrentIndexingSameKey ==
    \A e1, e2 \in DOMAIN events :
        (/\ e1 # e2
         /\ events[e1].key = events[e2].key
         /\ events[e1].pc = "post")
            => events[e2].pc # "post"

\* The positions of the commit calls in the trace of event e.
CommitCalls(e) ==
    {i \in 1..Len(events[e].trace) : events[e].trace[i].stage = "commit"}

C8_FailureObservable ==
    \A e \in Handlers : Failed(e) => events[e].ret # None

\* C9: the properties of an indexed record hold every metadata entry at top
\* level (the metadata winning over the object's field of the same name),
\* the object's key and etag fields, and no nested "metadata" field.
C9_PropertiesFlat ==
    \A e \in DOMAIN events :
        \A i \in 1..Len(events[e].trace) :
            events[e].trace[i].rec > 0 =>
                LET p  == weaviate[events[e].trace[i].rec].object.properties
                    md == events[e].trace[i].md
                IN  /\ "metadata" \notin DOMAIN p
                    /\ {"key", "etag"} \subseteq DOMAIN p
                    /\ \A k \in DOMAIN md : k \in DOMAIN p /\ p[k] = md[k]

\* The events a step started or changed.
Changed ==
    {e \in DOMAIN events' : e \notin DOMAIN events \/ events'[e] # events[e]}

\* A step belongs to one event: no other event's record changes, nothing
\* stored under another object key changes, and no stored index record is
\* changed or removed.
StepIsolated ==
    /\ Cardinality(Changed) <= 1
    /\ DOMAIN events \subseteq DOMAIN events'
    /\ \A k \in Keys :
          (\A e \in Changed : events'[e].key # k) =>
              /\ put_calls'[k] = put_calls[k]
              /\ \A b \in Buckets : minio'[b][k] = minio[b][k]
    /\ Len(weaviate') >= Len(weaviate)
    /\ SubSeq(weaviate', 1, Len(weaviate)) = weaviate

\* C10: no exception of a client call leaves a handler (it becomes the
\* return value False or None of the stage), every step is isolated to one
\* event, and every handler that started ends.
C10_FailureIsolation ==
    /\ [](\A e \in DOMAIN events : events[e].pc # "crashed")
    /\ [][StepIsolated]_vars
    /\ \A e \in 1..MaxEvents :
          [](e \in DOMAIN events =>
                <>(e \in DOMAIN events /\ events[e].pc = "done"))

\* Witness of C10: an event ended on a client error while an earlier
\* main() task was still in flight.
C10_Witness ==
    \E e1, e2 \in DOMAIN events :
        /\ e2 < e1
        /\ Failed(e1)
        /\ \E i \in 1..Len(events[e1].trace) : events[e1].trace[i].err = "error"
        /\ events[e2].kind = "main"
        /\ events[e2].pc \in {"get", "read", "put", "post"}

====
